---- MODULE Spec2Model ----
(***************************************************************************)
(* A model of BADCtf.py: the BADC text file document (data store and       *)
(* metadata store), its row parser, its validity and completeness checks   *)
(* and its serializers.                                                    *)
(*                                                                         *)
(* A value tuple is a sequence of strings.  An instance of BADCtf is a     *)
(* record with the fields of BADCtfData (variables, colnames) and of       *)
(* BADCtfMetadata (globalRecords, varRecords).  A call that raises leaves  *)
(* the name of the exception class in the variable raised.                 *)
(***************************************************************************)
EXTENDS Integers, Sequences, FiniteSets, TLC

VARIABLES
    t,        \* the BADCtf instance the calls act on (self)
    call,     \* the last call: its name, what it was given, what it saw before it ran
    raised,   \* class of the exception the last call raised, "none" if it returned
    ret,      \* what the last call returned ("None" for a plain return)
    file,     \* the target file of write(): "absent" before any write, then the
              \* format of the text the last write put there
    section,  \* the local variable section of _parse; 0 outside a parse
    pc,       \* "idle" between calls on a built instance; "parsing", "parsed",
              \* "done", "failed": where BADCtf('r', filename) stands
    base      \* number of records t held when its constructor or factory returned

vars == <<t, call, raised, ret, file, section, pc, base>>

(***************************************************************************)
(* Bounds of the model.                                                    *)
(***************************************************************************)
MaxVars == 2        \* variables (columns) a document is grown to
MaxRows == 2        \* values per variable a document is grown to
MaxRecords == 4     \* records added by add_metadata on top of a constructor's
MaxCells == 2       \* cells of an input row handed to the parser
MaxParseRecords == 1  \* metadata records of a parsed input
MaxParseRows == 1   \* data rows of a parsed input
MaxTuple == 5       \* values of a tuple handed to a checking function
MaxSkipped == 2     \* calls of makeBasicDummy left out when a document is built

(***************************************************************************)
(* Sequence helpers.                                                       *)
(***************************************************************************)
SeqsUpTo(S, n) == UNION {[1..k -> S] : k \in 0..n}

Range(s) == {s[i] : i \in 1..Len(s)}

(***************************************************************************)
(* The basic checking functions.  Each takes a tuple of values and gives   *)
(* the class of the exception it raises, "none" when it returns.           *)
(***************************************************************************)
\* int(v) of a string: the strings of the model that int() converts
IntStrings == {"1", "2"}

\* float(v) of a string: the strings of the model that float() converts
FloatStrings == {"1", "2", "1.5", "2.0", "1.0e99"}

\* int(v) of the strings int() converts
IntOf(v) == IF v = "1" THEN 1 ELSE 2

\* float(v), in tenths, of the strings float() converts; 1.0e99 is written as
\* a number above every other one
FloatTenths(v) ==
    CASE v = "1" -> 10
      [] v = "2" -> 20
      [] v = "1.5" -> 15
      [] v = "2.0" -> 20
      [] v = "1.0e99" -> 1000000

\* the body of the loop of checkType for func in [int, float] on a string v:
\* i = int(v); f = float(v); float(i) != f and func == int raises; the bare
\* except turns whatever was raised into ValueError
checkNumber(v, func) ==
    IF v \notin IntStrings THEN "ValueError"
    ELSE IF v \notin FloatStrings THEN "ValueError"
    ELSE IF 10 * IntOf(v) # FloatTenths(v) /\ func = "int" THEN "ValueError"
    ELSE "none"

\* checkType; func is "str", "int" or "float".  The values of the model are
\* strings, so for func "str" every element (of a tuple of strings, or the
\* characters of one string) is a str
checkType(values, func) ==
    IF func = "str" THEN "none"
    ELSE IF func \in {"int", "float"}
    THEN IF \E i \in 1..Len(values) : checkNumber(values[i], func) # "none"
         THEN "ValueError" ELSE "none"
    ELSE "ValueError"

checkInt(values) == checkType(values, "int")

checkFloat(values) == checkType(values, "float")

checkString(values) == checkType(values, "str")

\* checkLocation taking a tuple of three values as a tuple of floats too
checkLocation_len3(values) ==
    IF Len(values) \in {2, 3, 4} THEN checkType(values, "float")
    ELSE IF Len(values) = 1 THEN checkString(values[1])
    ELSE "ValueError"

checkLocation(values) ==
    IF Len(values) \in {2, 4} THEN checkType(values, "float")
    ELSE IF Len(values) = 1 THEN checkString(values[1])
    ELSE "ValueError"

\* time.strptime(v[0:10], "%Y-%m-%d") succeeds on these strings of the model
DateStrings == {"2013-12-01", "2013-12-02T00:00:00"}

checkDate(values) ==
    IF \E i \in 1..Len(values) : values[i] \notin DateStrings
    THEN "ValueError" ELSE "none"

\* checkAllTypes
checkAllTypes(values) ==
    IF \E i \in 1..Len(values) : values[i] \notin {"char", "int", "float"}
    THEN "ValueError" ELSE "none"

\* checkStandardName prints values[0] and values[1]
checkStandardName(values) == IF Len(values) < 2 THEN "IndexError" ELSE "none"

\* checkHeight calls checkfloat, a name the module does not define
checkHeight(values) == "NameError"

checkFeatureType(values) ==
    IF \E i \in 1..Len(values) :
          values[i] \notin {"point series", "trajectory", "point collection"}
    THEN "ValueError" ELSE "none"

checkCellMethod(values) == "NotImplementedError"

checkConventions(values) ==
    IF Len(values) = 0 THEN "IndexError"
    ELSE IF values[1] # "BADC-CSV" THEN "BADCtfMetadataInvalid"
    ELSE IF Len(values) = 1 THEN "IndexError"
    ELSE IF values[2] # "1" THEN "BADCtfMetadataInvalid"
    ELSE "none"

\* the call check(values) of the checking function named check
Check(check, values) ==
    CASE check = "checkString" -> checkString(values)
      [] check = "checkLocation" -> checkLocation(values)
      [] check = "checkHeight" -> checkHeight(values)
      [] check = "checkDate" -> checkDate(values)
      [] check = "checkFloat" -> checkFloat(values)
      [] check = "checkInt" -> checkInt(values)
      [] check = "checkStandardName" -> checkStandardName(values)
      [] check = "checkFeatureType" -> checkFeatureType(values)
      [] check = "checkConventions" -> checkConventions(values)
      [] check = "checkAllTypes" -> checkAllTypes(values)
      [] check = "checkCellMethod" -> checkCellMethod(values)

(***************************************************************************)
(* BADCtf.MDinfo: for each label, whether it applies globally, whether it  *)
(* applies to a column, the least and the greatest number of values, the   *)
(* mandatory flag for basic files and for complete files, the checking     *)
(* function.                                                               *)
(***************************************************************************)
Info(applyg, applyc, mino, maxo, mandb, mandc, check) ==
    [applyg |-> applyg, applyc |-> applyc, mino |-> mino, maxo |-> maxo,
     mandb |-> mandb, mandc |-> mandc, check |-> check]

Labels ==
    {"title", "comments", "location", "height", "creator", "contributor",
     "date_valid", "last_revised_date", "history", "reference", "source",
     "observation_station", "rights", "activity", "add_offset", "scale_factor",
     "valid_min", "valid_max", "valid_range", "long_name", "standard_name",
     "feature_type", "coordinate_variable", "Conventions", "type", "cell_method"}

MDinfo(label) ==
    CASE label = "title" -> Info(1, 0, 1, 1, 0, 0, "checkString")
      [] label = "comments" -> Info(1, 1, 1, 1, 0, 0, "checkString")
      [] label = "location" -> Info(1, 1, 1, 4, 0, 1, "checkLocation")
      [] label = "height" -> Info(1, 1, 2, 2, 0, 0, "checkHeight")
      [] label = "creator" -> Info(1, 1, 1, 2, 0, 1, "checkString")
      [] label = "contributor" -> Info(1, 1, 1, 2, 0, 0, "checkString")
      [] label = "date_valid" -> Info(1, 1, 1, 2, 0, 1, "checkDate")
      [] label = "last_revised_date" -> Info(1, 1, 1, 1, 0, 1, "checkDate")
      [] label = "history" -> Info(1, 1, 1, 1, 0, 0, "checkString")
      [] label = "reference" -> Info(1, 1, 1, 1, 0, 0, "checkString")
      [] label = "source" -> Info(1, 1, 1, 1, 0, 1, "checkString")
      [] label = "observation_station" -> Info(1, 1, 1, 1, 0, 1, "checkString")
      [] label = "rights" -> Info(1, 1, 1, 1, 0, 0, "checkString")
      [] label = "activity" -> Info(1, 1, 1, 1, 0, 1, "checkString")
      [] label = "add_offset" -> Info(0, 1, 1, 1, 0, 0, "checkFloat")
      [] label = "scale_factor" -> Info(0, 1, 1, 1, 0, 0, "checkFloat")
      [] label = "valid_min" -> Info(1, 1, 1, 1, 0, 0, "checkFloat")
      [] label = "valid_max" -> Info(1, 1, 1, 1, 0, 0, "checkFloat")
      [] label = "valid_range" -> Info(1, 1, 2, 2, 0, 0, "checkFloat")
      [] label = "long_name" -> Info(0, 1, 2, 2, 2, 2, "checkString")
      [] label = "standard_name" -> Info(0, 1, 3, 3, 0, 0, "checkStandardName")
      [] label = "feature_type" -> Info(1, 0, 1, 1, 0, 1, "checkFeatureType")
      [] label = "coordinate_variable" -> Info(0, 1, 0, 2, 1, 1, "checkInt")
      [] label = "Conventions" -> Info(1, 0, 2, 2, 1, 1, "checkConventions")
      [] label = "type" -> Info(0, 1, 1, 1, 0, 2, "checkAllTypes")
      [] label = "cell_method" -> Info(1, 1, 1, 4, 0, 0, "checkCellMethod")

(***************************************************************************)
(* BADCtfData and BADCtfVariable.                                          *)
(***************************************************************************)
EmptyInstance ==
    [variables |-> <<>>, colnames |-> <<>>, globalRecords |-> <<>>, varRecords |-> <<>>]

\* BADCtfData.nvar
nvar(d) == Len(d.variables)

\* BADCtfData.__len__: the number of data rows
DataLen(d) == IF Len(d.variables) = 0 THEN 0 ELSE Len(d.variables[1])

\* BADCtfData.getrow
getrow(d, i) == [j \in 1..nvar(d) |-> d.variables[j][i]]

Returned(d) == [t |-> d, raised |-> "none"]
Raises(d, e) == [t |-> d, raised |-> e]

\* BADCtfData.add_variable, without its length test
add_variable_unchecked(d, name, values) ==
    Returned([d EXCEPT !.variables = Append(@, values), !.colnames = Append(@, name)])

\* BADCtfData.add_variable (BADCtf.add_variable forwards to it)
add_variable(d, name, values) ==
    IF Len(d.variables) = 0 \/ Len(values) = Len(d.variables[1])
    THEN Returned([d EXCEPT !.variables = Append(@, values),
                            !.colnames = Append(@, name)])
    ELSE Raises(d, "BADCtfError")

\* BADCtfData.add_data_row (BADCtf.add_datarecord forwards to it)
add_data_row(d, values) ==
    IF nvar(d) = 0 /\ Len(values) # 0
    THEN Returned([d EXCEPT !.variables = [i \in 1..Len(values) |-> <<values[i]>>]])
    ELSE IF nvar(d) = Len(values)
    THEN Returned([d EXCEPT !.variables =
                       [i \in 1..Len(values) |-> Append(d.variables[i], values[i])]])
    ELSE Raises(d, "BADCtfError")

(***************************************************************************)
(* BADCtfMetadata.                                                         *)
(***************************************************************************)
\* BADCtfMetadata.add_record with a tuple of values and a string ref
add_record(d, label, values, ref) ==
    IF ref = "G"
    THEN [d EXCEPT !.globalRecords = Append(@, <<label, values>>)]
    ELSE [d EXCEPT !.varRecords = Append(@, <<label, ref, values>>)]

\* BADCtf.__init__ in mode 'w': empty stores, then the Conventions record
NewInstance == add_record(EmptyInstance, "Conventions", <<"BADC-CSV", "1">>, "G")

\* BADCtfMetadata.__getitem__ with a label: the values of its global records
getglobal(d, lab) ==
    LET sel == SelectSeq(d.globalRecords, LAMBDA r : r[1] = lab)
    IN  [i \in 1..Len(sel) |-> sel[i][2]]

\* BADCtfMetadata.__getitem__ with a (label, column) tuple: the values of the
\* global records of the label, then those of the column records that match;
\* a column '*' matches every column record of the label, a label '*' gives
\* the (label, values) pairs of the column
getitem(d, lab, col) ==
    LET Direct(r) == lab = r[1] /\ (col = r[2] \/ col = "*")
        sel == SelectSeq(d.varRecords,
                         LAMBDA r : Direct(r) \/ (lab = "*" /\ col = r[2]))
    IN  getglobal(d, lab)
        \o [i \in 1..Len(sel) |->
               IF Direct(sel[i]) THEN sel[i][3] ELSE <<sel[i][1], sel[i][3]>>]

\* BADCtf.colnames
colnames(d) == d.colnames

(***************************************************************************)
(* BADCtf._check_valid.                                                    *)
(***************************************************************************)
\* the values self[label, colname] of every colname of colnames(), in order
RECURSIVE ColumnValues(_, _, _)
ColumnValues(d, label, names) ==
    IF Len(names) = 0 THEN <<>>
    ELSE getitem(d, label, Head(names)) \o ColumnValues(d, label, Tail(names))

\* what the first failing call check(values) raises, going through a list of
\* value tuples
RECURSIVE FirstRaise(_, _)
FirstRaise(check, tuples) ==
    IF Len(tuples) = 0 THEN "none"
    ELSE IF Check(check, Head(tuples)) # "none" THEN Check(check, Head(tuples))
    ELSE FirstRaise(check, Tail(tuples))

\* the body of the loop of _check_valid for one label
label_valid(d, label) ==
    LET info == MDinfo(label)
        g == getglobal(d, label)
        c == ColumnValues(d, label, colnames(d))
        BadLength(values) == Len(values) > info.maxo \/ Len(values) < info.mino
    IN  IF info.applyg = 0 /\ Len(g) # 0 THEN "BADCtfMetadataInvalid"
        ELSE IF info.applyc = 0 /\ Len(g) = 0 /\ Len(c) # 0
        THEN "BADCtfMetadataInvalid"
        ELSE IF \E i \in 1..Len(g) : BadLength(g[i]) THEN "BADCtfMetadataInvalid"
        ELSE IF \E i \in 1..Len(c) : BadLength(c[i]) THEN "BADCtfMetadataInvalid"
        ELSE IF FirstRaise(info.check, g) # "none" THEN "BADCtfMetadataInvalid"
        ELSE FirstRaise(info.check, c)

\* the exceptions the labels of MDinfo raise in _check_valid, each on its own
ValidRaises(d) == {label_valid(d, label) : label \in Labels} \ {"none"}

\* _check_valid: the loop is over a dict, whose order the code does not fix, so
\* the label that fails first can be any of those that fail.  The result is
\* the set of the outcomes: the exceptions it can raise, or "none"
_check_valid(d) == IF ValidRaises(d) = {} THEN {"none"} ELSE ValidRaises(d)

(***************************************************************************)
(* BADCtf._check_complete.                                                 *)
(***************************************************************************)
\* the mandatory flag of basic files, whatever the level asked for
mandatory_basic(label, level) == MDinfo(label).mandb

\* if level == 'basic': mand = mandb, else: mand = mandc
mandatory(label, level) ==
    IF level = "basic" THEN MDinfo(label).mandb ELSE MDinfo(label).mandc

\* the body of the first loop of _check_complete for one label: TRUE when it
\* raises BADCtfMetadataIncomplete
label_incomplete(d, label, level) ==
    LET info == MDinfo(label)
        mand == mandatory(label, level)
        names == colnames(d)
    IN  IF mand = 0 THEN FALSE
        ELSE IF info.applyg # 0
        THEN /\ Len(getglobal(d, label)) = 0
             /\ \A i \in 1..Len(names) : Len(getitem(d, label, names[i])) = 0
        ELSE IF info.applyc # 0 /\ mand = 2
        THEN \E i \in 1..Len(names) : Len(getitem(d, label, names[i])) = 0
        ELSE FALSE

\* _check_complete: the set of its outcomes (see _check_valid)
_check_complete(d, level) ==
    IF ValidRaises(d) # {} THEN ValidRaises(d)
    ELSE IF \E label \in Labels : label_incomplete(d, label, level)
    THEN {"BADCtfMetadataIncomplete"}
    ELSE IF Len(getitem(d, "coordinate_variable", "*")) = 0
    THEN {"BADCtfMetadataIncomplete"}
    ELSE {"none"}

(***************************************************************************)
(* BADCtf._parse: the body of its loop over the rows of csv.reader.        *)
(***************************************************************************)
\* str.lower on the strings of the model that hold an upper case letter
Lower(s) ==
    CASE s = "Data" -> "data"
      [] s = "End Data" -> "end data"
      [] s = "G" -> "g"
      [] OTHER -> s

\* while row[-1] == '': row = row[:-1]
\* row[-1] of a row without cells raises IndexError
RECURSIVE StripBlankCells(_)
StripBlankCells(row) ==
    IF Len(row) = 0 THEN [raised |-> "IndexError", row |-> row]
    ELSE IF row[Len(row)] = "" THEN StripBlankCells(SubSeq(row, 1, Len(row) - 1))
    ELSE [raised |-> "none", row |-> row]

\* for colname in row: self.add_variable(colname)
RECURSIVE AddColumns(_, _)
AddColumns(d, row) ==
    IF Len(row) = 0 THEN Returned(d)
    ELSE LET r == add_variable(d, Head(row), <<>>) IN
         IF r.raised # "none" THEN r ELSE AddColumns(r.t, Tail(row))

ParseState(d, sec, e, done) == [t |-> d, section |-> sec, raised |-> e, returns |-> done]

\* section 3 of the loop body, after the blank cells are removed
parse_data_row(d, row) ==
    IF Len(row) = 0 THEN ParseState(d, 3, "none", FALSE)
    ELSE IF Len(row) = 1
    THEN IF Lower(row[1]) = "end data"
         THEN ParseState(d, 3, "none", TRUE)
         ELSE ParseState(d, 3, "none", FALSE)
    ELSE LET r == add_data_row(d, row) IN ParseState(r.t, 3, r.raised, FALSE)

\* section 1 of the loop body with every row of one cell taken as the marker
parse_metadata_row_any_marker(d, row) ==
    IF Len(row) = 0 THEN ParseState(d, 1, "none", FALSE)
    ELSE IF Len(row) = 1 THEN ParseState(d, 2, "none", FALSE)
    ELSE ParseState(add_record(d, row[1], SubSeq(row, 3, Len(row)), row[2]),
                    1, "none", FALSE)

\* section 1 of the loop body, after the blank cells are removed
parse_metadata_row(d, row) ==
    IF Len(row) = 0 THEN ParseState(d, 1, "none", FALSE)
    ELSE IF Len(row) = 1
    THEN IF Lower(row[1]) = "data"
         THEN ParseState(d, 2, "none", FALSE)
         ELSE ParseState(d, 1, "none", FALSE)
    ELSE ParseState(add_record(d, row[1], SubSeq(row, 3, Len(row)), row[2]),
                    1, "none", FALSE)

\* one pass of the loop body of _parse on one row, in section sec
parse_row(d, sec, row) ==
    LET s == StripBlankCells(row) IN
    IF s.raised # "none" THEN ParseState(d, sec, s.raised, FALSE)
    ELSE IF sec = 1 THEN parse_metadata_row(d, s.row)
    ELSE IF sec = 2
    THEN LET r == AddColumns(d, s.row) IN
         IF r.raised # "none" THEN ParseState(r.t, 2, r.raised, FALSE)
         ELSE ParseState(r.t, 3, "none", FALSE)
    ELSE parse_data_row(d, s.row)

\* BADCtf._parse on the rows of a file: the loop runs until a row raises, the
\* end data row returns, or the rows run out
RECURSIVE parse_rows(_, _, _)
parse_rows(d, sec, rows) ==
    IF Len(rows) = 0 THEN ParseState(d, sec, "none", TRUE)
    ELSE LET r == parse_row(d, sec, Head(rows)) IN
         IF r.raised # "none" \/ r.returns THEN r
         ELSE parse_rows(r.t, r.section, Tail(rows))

\* BADCtf._parse on a fresh instance
_parse(rows) == parse_rows(EmptyInstance, 1, rows)

(***************************************************************************)
(* The canonical serialization.  A row is the tuple handed to              *)
(* csv.writer.writerow; csv.reader gives back the cells of a row of        *)
(* strings as they were written, so the file is kept as its rows.          *)
(***************************************************************************)
\* BADCtfMetadata.csv
Metadata_csv(d) ==
    [i \in 1..Len(d.globalRecords) |->
        <<d.globalRecords[i][1], "G">> \o d.globalRecords[i][2]]
    \o [i \in 1..Len(d.varRecords) |->
        <<d.varRecords[i][1], d.varRecords[i][2]>> \o d.varRecords[i][3]]

\* BADCtfData.csv
Data_csv(d) ==
    <<  <<"Data">>, d.colnames >>
    \o [i \in 1..DataLen(d) |-> getrow(d, i)]
    \o << <<"End Data">> >>

\* BADCtf._csv
_csv(d) == Metadata_csv(d) \o Data_csv(d)

(***************************************************************************)
(* BADCtf._NASA_Ames.  The header is kept as its lines, a line as the      *)
(* values that are formatted into it.                                      *)
(***************************************************************************)
\* self[label, i] with an int i, as _NASA_Ames asks for: __getitem__ of BADCtf
\* hands the tuple to the metadata, where no column record has
\* col == column for an int col, so the global records are all it gives
getitem_index(d, label, i) == getglobal(d, label)

\* string order of the date strings of the model, as min() compares them
DateRank(v) == IF v = "2013-12-01" THEN 1 ELSE 2

\* min(tuples)[0]: the least first value (an empty tuple is the least tuple)
MinFirst(tuples) ==
    CHOOSE v \in {tuples[i][1] : i \in 1..Len(tuples)} :
        \A i \in 1..Len(tuples) : DateRank(v) <= DateRank(tuples[i][1])

\* the columns v of colnames() with self._metadata[('coordinate_variable', v)]
\* not empty
cvars(d) ==
    SelectSeq(colnames(d), LAMBDA v : Len(getitem(d, "coordinate_variable", v)) # 0)

\* the entry of sf_line for index i
scale_entry(d, i) ==
    LET sf == getitem_index(d, "scale_factor", i) IN
    IF Len(sf) = 0 THEN "1.0" ELSE sf[1][1]

\* the entry of max_line for index i, in tenths
max_entry(d, i) ==
    LET vm == getitem_index(d, "valid_max", i)
        vr == getitem_index(d, "valid_range", i)
        m == IF Len(vm) = 0 THEN "1.0e99" ELSE vm[1][1]
        r == IF Len(vr) = 0 THEN "1.0e99" ELSE vr[1][2]
    IN  IF FloatTenths(m) <= FloatTenths(r) THEN FloatTenths(m) ELSE FloatTenths(r)

\* what building the lines of the header raises, "none" if nothing
NASA_Ames_raises(d) ==
    LET firsts == getglobal(d, "creator") \o getglobal(d, "source")
                  \o getglobal(d, "activity")
        dv == getglobal(d, "date_valid")
        lr == getglobal(d, "last_revised_date")
        cv == cvars(d)
        sf == getglobal(d, "scale_factor")
        vm == getglobal(d, "valid_max")
        vr == getglobal(d, "valid_range")
        ln == getitem(d, "long_name", "*")
    IN  IF \E i \in 1..Len(firsts) : Len(firsts[i]) = 0 THEN "IndexError"
        ELSE IF Len(dv) = 0 THEN "ValueError"
        ELSE IF \E i \in 1..Len(dv) : Len(dv[i]) = 0 THEN "IndexError"
        ELSE IF Len(lr) = 0 THEN "ValueError"
        ELSE IF \E i \in 1..Len(lr) : Len(lr[i]) = 0 THEN "IndexError"
        ELSE IF Len(cv) = 0 THEN "AssertionError"
        ELSE IF Len(cv) # 1 THEN "AssertionError"
        ELSE IF Len(getitem(d, "long_name", cv[1])) = 0 THEN "IndexError"
        ELSE IF Len(getitem(d, "long_name", cv[1])[1]) # 2 THEN "TypeError"
        ELSE IF nvar(d) > 1 /\ Len(sf) # 0 /\ Len(sf[1]) = 0 THEN "IndexError"
        ELSE IF nvar(d) > 1 /\ Len(vm) # 0 /\ Len(vm[1]) = 0 THEN "IndexError"
        ELSE IF nvar(d) > 1 /\ Len(vr) # 0 /\ Len(vr[1]) < 2 THEN "IndexError"
        ELSE IF /\ nvar(d) > 1
                /\ \/ (Len(vm) # 0 /\ vm[1][1] \notin FloatStrings)
                   \/ (Len(vr) # 0 /\ vr[1][2] \notin FloatStrings)
        THEN "ValueError"
        ELSE IF \E i \in 1..Len(ln) : Len(ln[i]) # 2 THEN "TypeError"
        ELSE "none"

\* the lines of the header and the rows of the data, when nothing is raised
NASA_Ames_text(d) ==
    LET creators == getglobal(d, "creator")
        two == SelectSeq(creators, LAMBDA c : Len(c) = 2)
        ln == getitem(d, "long_name", "*")
        nlines == Len(Metadata_csv(d))
    IN  [ creator |-> [i \in 1..Len(creators) |-> creators[i][1]],
          institute |-> IF Len(two) = 0 THEN <<"Unkno">>
                        ELSE [i \in 1..Len(two) |-> two[i][2]],
          source |-> [i \in 1..Len(getglobal(d, "source")) |->
                         getglobal(d, "source")[i][1]],
          activity |-> [i \in 1..Len(getglobal(d, "activity")) |->
                           getglobal(d, "activity")[i][1]],
          dates |-> << MinFirst(getglobal(d, "date_valid")),
                       MinFirst(getglobal(d, "last_revised_date")) >>,
          coord |-> getitem(d, "long_name", cvars(d)[1])[1],
          nvar |-> nvar(d) - 1,
          sf_line |-> [i \in 1..(nvar(d) - 1) |-> scale_entry(d, i)],
          max_line |-> [i \in 1..(nvar(d) - 1) |-> max_entry(d, i)],
          \* name not in cvars holds of every name: a name is a tuple of
          \* values, cvars holds column names
          long_names |-> ln,
          ncomments |-> nlines + 2,
          metadata |-> Metadata_csv(d),
          \* len(header) + nlines, header holding 16 entries and the long names
          nheader |-> 16 + Len(ln) + nlines,
          data |-> [i \in 1..DataLen(d) |-> getrow(d, i)] ]

\* BADCtf._NASA_Ames: what it raises and what it returns
_NASA_Ames(d) ==
    IF NASA_Ames_raises(d) # "none"
    THEN [raised |-> NASA_Ames_raises(d), text |-> "None"]
    ELSE [raised |-> "none", text |-> NASA_Ames_text(d)]

(***************************************************************************)
(* Calls on a built instance: each action is one call of the public API.   *)
(***************************************************************************)
Names == {"a", "b"}            \* column names the calls draw from
DataValues == {"1", "2"}       \* data values the calls draw from

\* t.add_variable(name, values)
AddVariable(name, values) ==
    LET r == add_variable(t, name, values) IN
    /\ pc = "idle"
    /\ r.raised = "none" => nvar(t) < MaxVars
    /\ t' = r.t
    /\ raised' = r.raised
    /\ call' = [op |-> "add_variable", width |-> Len(values),
                nvar |-> nvar(t), len |-> DataLen(t)]
    /\ ret' = "None"
    /\ UNCHANGED <<file, section, pc, base>>

\* t.add_datarecord(values)
AddDatarecord(values) ==
    LET r == add_data_row(t, values) IN
    /\ pc = "idle"
    /\ r.raised = "none" => DataLen(t) < MaxRows
    /\ t' = r.t
    /\ raised' = r.raised
    /\ call' = [op |-> "add_datarecord", width |-> Len(values),
                nvar |-> nvar(t), len |-> DataLen(t)]
    /\ ret' = "None"
    /\ UNCHANGED <<file, section, pc, base>>

\* t.add_metadata(label, values, ref)
AddMetadata(label, values, ref) ==
    /\ pc = "idle"
    /\ Len(t.globalRecords) + Len(t.varRecords) < base + MaxRecords
    /\ t' = add_record(t, label, values, ref)
    /\ raised' = "none"
    /\ call' = [op |-> "add_metadata", ref |-> ref]
    /\ ret' = "None"
    /\ UNCHANGED <<file, section, pc, base>>

\* t.write(filename), then _parse of that file on a fresh instance, as
\* testMakeAndWriteAndRead does up to the end of _parse
WriteAndRead ==
    LET r == _parse(_csv(t)) IN
    /\ pc = "idle"
    /\ file' = "csv"
    /\ ret' = [t |-> r.t, raised |-> r.raised]
    /\ raised' = r.raised
    /\ call' = [op |-> "write_and_read"]
    /\ UNCHANGED <<t, section, pc, base>>

\* t._check_valid()
CheckValid ==
    /\ pc = "idle"
    /\ \E e \in _check_valid(t) : raised' = e
    /\ call' = [op |-> "_check_valid"]
    /\ ret' = "None"
    /\ UNCHANGED <<t, file, section, pc, base>>

\* t._check_complete(level)
CheckComplete(level) ==
    /\ pc = "idle"
    /\ \E e \in _check_complete(t, level) : raised' = e
    /\ call' = [op |-> "_check_complete", level |-> level]
    /\ ret' = "None"
    /\ UNCHANGED <<t, file, section, pc, base>>

\* t._NASA_Ames()
NasaAmes ==
    LET r == _NASA_Ames(t) IN
    /\ pc = "idle"
    /\ raised' = r.raised
    /\ ret' = r.text
    /\ call' = [op |-> "_NASA_Ames", file |-> file]
    /\ UNCHANGED <<t, file, section, pc, base>>

\* t.write(filename, fmt) for fmt 'csv' and 'na': the file is opened and
\* written once the text is made
Write(fmt) ==
    LET r == IF fmt = "na" THEN _NASA_Ames(t) ELSE [raised |-> "none"] IN
    /\ pc = "idle"
    /\ raised' = r.raised
    /\ file' = IF r.raised = "none" THEN fmt ELSE file
    /\ ret' = "None"
    /\ call' = [op |-> "write", fmt |-> fmt, file |-> file]
    /\ UNCHANGED <<t, section, pc, base>>

\* t = BADCtf(): mode 'w', no call made yet
Init ==
    /\ t = NewInstance
    /\ call = [op |-> "BADCtf"]
    /\ raised = "none"
    /\ ret = "None"
    /\ file = "absent"
    /\ section = 0
    /\ pc = "idle"
    /\ base = 1

(***************************************************************************)
(* SpecData: the data store under add_variable and add_datarecord.         *)
(***************************************************************************)
NextData ==
    \/ \E name \in Names, values \in SeqsUpTo(DataValues, MaxRows) :
          AddVariable(name, values)
    \/ \E values \in SeqsUpTo(DataValues, MaxVars) : AddDatarecord(values)

SpecData == Init /\ [][NextData]_vars

\* the last call was made on a store whose width was established and disagreed
\* with it: a variable of another length, or a row of another width
ShapeMismatch ==
    \/ /\ call.op = "add_variable"
       /\ call.nvar > 0
       /\ call.width # call.len
    \/ /\ call.op = "add_datarecord"
       /\ call.nvar > 0
       /\ call.width # call.nvar

\* C2: a variable or a data row whose width disagrees with the established
\* width of the document fails with the data-shape error, BADCtfDataError.
C2_ShapeErrorKind == ShapeMismatch => raised = "BADCtfDataError"

\* C3: after any sequence of add_variable and add_datarecord calls, failed
\* ones included, all variables hold the same number of values.
C3_UniformLength ==
    \A i, j \in 1..nvar(t) : Len(t.variables[i]) = Len(t.variables[j])

\* two variables with a value each, right after a call that was refused
C3_Witness ==
    /\ nvar(t) = 2
    /\ DataLen(t) >= 1
    /\ ShapeMismatch
    /\ raised # "none"

\* C18: after any sequence of add_variable and add_datarecord calls on a new
\* instance, add_datarecord first included, colnames() has one name for each
\* variable and the header row of the canonical serialization has one cell
\* for each data column.
C18_NamesMatchColumns ==
    /\ Len(colnames(t)) = nvar(t)
    /\ Len(Data_csv(t)[2]) = nvar(t)

(***************************************************************************)
(* Spec: a document built through the API, written and read back.          *)
(***************************************************************************)
\* the records add_metadata draws from: a global one, column ones, one
\* without values
RoundTripRecords ==
    { <<"title", <<"T">>, "G">>,
      <<"long_name", <<"T", "K">>, "a">>,
      <<"comments", <<>>, "b">> }

Next ==
    \/ \E name \in Names, values \in SeqsUpTo(DataValues, MaxRows) :
          AddVariable(name, values)
    \/ \E values \in SeqsUpTo(DataValues, MaxVars) : AddDatarecord(values)
    \/ \E rec \in RoundTripRecords : AddMetadata(rec[1], rec[2], rec[3])
    \/ WriteAndRead

Spec == Init /\ [][Next]_vars

\* C1: for a document with at least one column, every column named, reading
\* back its canonical serialization returns normally with the same global
\* records, column records, column names and values.
C1_RoundTrip ==
    (call.op = "write_and_read" /\ nvar(t) >= 1 /\ Len(t.colnames) = nvar(t))
        => (ret.raised = "none" /\ ret.t = t)

(***************************************************************************)
(* SpecValid: the validity pass on documents that hold Conventions records *)
(* and a column record of another label.                                   *)
(***************************************************************************)
\* the stores as __init__ creates them, to be filled through add_metadata and
\* add_variable as _parse fills an instance of mode 'r'
InitEmpty ==
    /\ t = EmptyInstance
    /\ call = [op |-> "BADCtf"]
    /\ raised = "none"
    /\ ret = "None"
    /\ file = "absent"
    /\ section = 0
    /\ pc = "idle"
    /\ base = 0

ValidRecords ==
    { <<"Conventions", <<"BADC-CSV", "1">>, "G">>,
      <<"Conventions", <<"BADC-CSV", "2">>, "G">>,
      <<"Conventions", <<"CSV", "1">>, "G">>,
      <<"Conventions", <<"BADC-CSV">>, "G">>,
      <<"Conventions", <<"BADC-CSV", "1", "x">>, "G">>,
      <<"type", <<"float">>, "a">>,
      <<"type", <<"bogus">>, "a">> }

NextValid ==
    \/ \E name \in Names : AddVariable(name, <<>>)
    \/ \E rec \in ValidRecords : AddMetadata(rec[1], rec[2], rec[3])
    \/ CheckValid

SpecValid == (Init \/ InitEmpty) /\ [][NextValid]_vars

\* the document holds a global Conventions record whose values are not
\* ("BADC-CSV", "1")
BadConventions(d) ==
    \E i \in 1..Len(d.globalRecords) :
        /\ d.globalRecords[i][1] = "Conventions"
        /\ d.globalRecords[i][2] # <<"BADC-CSV", "1">>

\* C4: on a document that holds a global Conventions record whose values are
\* not ("BADC-CSV", "1"), _check_valid raises BADCtfMetadataInvalid (or its
\* subclass), whatever else the document holds.
C4_ConventionsEnforced ==
    (call.op = "_check_valid" /\ BadConventions(t))
        => raised \in {"BADCtfMetadataInvalid", "BADCtfMetadataNonstandard"}

\* a record of the document, global or of one of its columns, whose values
\* the checking function of its label refuses
RejectedRecord(d) ==
    \/ \E i \in 1..Len(d.globalRecords) :
          Check(MDinfo(d.globalRecords[i][1]).check, d.globalRecords[i][2]) # "none"
    \/ \E i \in 1..Len(d.varRecords) :
          /\ \E k \in 1..Len(d.colnames) : d.colnames[k] = d.varRecords[i][2]
          /\ Check(MDinfo(d.varRecords[i][1]).check, d.varRecords[i][3]) # "none"

\* C14: when the checking function of a label refuses the values of a global
\* record or of a record of a column, _check_valid raises
\* BADCtfMetadataInvalid (or its subclass BADCtfMetadataNonstandard) and no
\* exception of another kind.
C14_ValidatorFailureKind ==
    (call.op = "_check_valid" /\ RejectedRecord(t))
        => raised \in {"BADCtfMetadataInvalid", "BADCtfMetadataNonstandard"}

(***************************************************************************)
(* SpecScope: the validity pass on documents whose columns hold records of *)
(* the labels that MDinfo does not allow on a column.                      *)
(***************************************************************************)
ScopeRecords ==
    { <<"title", <<"T">>, "G">>,
      <<"title", <<"T">>, "a">>,
      <<"feature_type", <<"trajectory">>, "G">>,
      <<"feature_type", <<"trajectory">>, "a">>,
      <<"Conventions", <<"BADC-CSV", "1">>, "a">> }

NextScope ==
    \/ \E name \in Names : AddVariable(name, <<>>)
    \/ \E rec \in ScopeRecords : AddMetadata(rec[1], rec[2], rec[3])
    \/ CheckValid

SpecScope == (Init \/ InitEmpty) /\ [][NextScope]_vars

\* the labels of MDinfo that do not apply to a column
ColumnDisallowed == {label \in Labels : MDinfo(label).applyc = 0}

\* a column of the document holds a record of a label of ColumnDisallowed
DisallowedOnColumn(d) ==
    \E i \in 1..Len(d.varRecords) :
        /\ d.varRecords[i][1] \in ColumnDisallowed
        /\ \E k \in 1..Len(d.colnames) : d.colnames[k] = d.varRecords[i][2]

\* C13: on a document in which a column holds a record of title,
\* feature_type or Conventions, _check_valid raises BADCtfMetadataInvalid,
\* with or without a global record of the same label.
C13_ColumnScope ==
    (call.op = "_check_valid" /\ DisallowedOnColumn(t))
        => raised = "BADCtfMetadataInvalid"

(***************************************************************************)
(* SpecComplete: the completeness pass on the documents that the calls of  *)
(* makeBasicDummy build.  The calls are made in the order of the function, *)
(* any of them may be left out (MaxSkipped at most), and two calls that    *)
(* the function does not make can follow.                                  *)
(***************************************************************************)
Meta(label, values, ref) ==
    [op |-> "add_metadata", label |-> label, values |-> values, ref |-> ref]

Var(name, values) == [op |-> "add_variable", name |-> name, values |-> values]

\* the calls of BADCtf() in mode 'w', makeBadDummy and makeBasicDummy; the
\* numbers are written as str() writes them, the time of the last call is a
\* fixed one
DummyCalls ==
    << Meta("Conventions", <<"BADC-CSV", "1">>, "G"),
       Var("temp", <<"301.2", "303.4", "305.6", "305.2">>),
       Var("press", <<"1002.2", "1004.4", "1005.7", "1015.2">>),
       Var("time", <<"6", "12", "18", "24">>),
       Meta("creator", <<"Scrofulous Student">>, "G"),
       Meta("creator", <<"Prof Bigshot, Hogwarts Uni">>, "G"),
       Meta("long_name", <<"Temperature", "K">>, "temp"),
       Meta("long_name", <<"Pressure", "hPa">>, "press"),
       Meta("long_name", <<"Time since zero hours on valid date", "hours">>, "time"),
       Meta("type", <<"float">>, "temp"),
       Meta("type", <<"float">>, "press"),
       Meta("type", <<"int">>, "time"),
       Meta("coordinate_variable", <<"1">>, "time"),
       Meta("date_valid", <<"2013-12-01">>, "G"),
       Meta("feature_type", <<"point series">>, "G"),
       Meta("observation_station", <<"My back yard">>, "G"),
       Meta("location", <<"My back yard">>, "G"),
       Meta("activity", <<"testing BADCtf">>, "G"),
       Meta("source", <<"My Dummy data program">>, "G"),
       Meta("last_revised_date", <<"2013-12-02T00:00:00">>, "G") >>

\* two further calls: a location given to a column, a coordinate_variable
\* given to a name that is no column
FurtherCalls ==
    << Meta("location", <<"My back yard">>, "temp"),
       Meta("coordinate_variable", <<"1">>, "depth") >>

Calls == DummyCalls \o FurtherCalls

\* the call was made on d
Made(d, c) ==
    IF c.op = "add_variable" THEN c.name \in Range(d.colnames)
    ELSE IF c.ref = "G" THEN <<c.label, c.values>> \in Range(d.globalRecords)
    ELSE <<c.label, c.ref, c.values>> \in Range(d.varRecords)

\* the calls of makeBasicDummy left out before call k
Skipped(d, k) == {j \in 1..Len(DummyCalls) : j < k /\ ~Made(d, DummyCalls[j])}

\* call k comes after every call made so far, and leaves out few enough
InOrder(k) ==
    /\ \A j \in k..Len(Calls) : ~Made(t, Calls[j])
    /\ Cardinality(Skipped(t, k)) <= MaxSkipped

\* call k, an add_variable
MakeVariableCall(k) ==
    LET c == Calls[k]
        r == add_variable(t, c.name, c.values) IN
    /\ pc = "idle"
    /\ c.op = "add_variable"
    /\ InOrder(k)
    /\ t' = r.t
    /\ raised' = r.raised
    /\ call' = [op |-> "add_variable", width |-> Len(c.values),
                nvar |-> nvar(t), len |-> DataLen(t)]
    /\ ret' = "None"
    /\ UNCHANGED <<file, section, pc, base>>

\* call k, an add_metadata
MakeMetadataCall(k) ==
    LET c == Calls[k] IN
    /\ pc = "idle"
    /\ c.op = "add_metadata"
    /\ InOrder(k)
    /\ t' = add_record(t, c.label, c.values, c.ref)
    /\ raised' = "none"
    /\ call' = [op |-> "add_metadata", ref |-> c.ref]
    /\ ret' = "None"
    /\ UNCHANGED <<file, section, pc, base>>

NextComplete ==
    \/ \E k \in 1..Len(Calls) : MakeVariableCall(k)
    \/ \E k \in 1..Len(Calls) : MakeMetadataCall(k)
    \/ \E level \in {"basic", "complete"} : CheckComplete(level)

SpecComplete == InitEmpty /\ [][NextComplete]_vars

\* some data column of the document has a coordinate_variable record
HasCoordinateColumn(d) ==
    \E i \in 1..Len(d.varRecords) :
        /\ d.varRecords[i][1] = "coordinate_variable"
        /\ d.varRecords[i][2] \in Range(d.colnames)

\* C5: on a document none of whose data columns has a coordinate_variable
\* record, _check_complete does not return, at either level, whatever other
\* records there are.
C5_CoordinateRequired ==
    (call.op = "_check_complete" /\ ~HasCoordinateColumn(t)) => raised # "none"

\* the document has a global record of the label
HasGlobal(d, label) ==
    \E i \in 1..Len(d.globalRecords) : d.globalRecords[i][1] = label

\* the column has a record of the label
HasOnColumn(d, label, name) ==
    \E i \in 1..Len(d.varRecords) :
        d.varRecords[i][1] = label /\ d.varRecords[i][2] = name

\* the flag of the label for the level
Flag(label, level) ==
    IF level = "basic" THEN MDinfo(label).mandb ELSE MDinfo(label).mandc

\* a field that is mandatory at the level is missing: one that applies
\* globally has no global record and no record on any column, or one that
\* applies to columns only, with flag 2, has no record on some column
MissingMandatory(d, level) ==
    \E label \in Labels :
        /\ Flag(label, level) # 0
        /\ \/ /\ MDinfo(label).applyg = 1
              /\ ~HasGlobal(d, label)
              /\ \A name \in Range(d.colnames) : ~HasOnColumn(d, label, name)
           \/ /\ MDinfo(label).applyg = 0
              /\ MDinfo(label).applyc = 1
              /\ Flag(label, level) = 2
              /\ \E name \in Range(d.colnames) : ~HasOnColumn(d, label, name)

\* _check_complete was called on a document that passes _check_valid and has
\* a column with a coordinate_variable record
CompleteCase ==
    /\ call.op = "_check_complete"
    /\ _check_valid(t) = {"none"}
    /\ HasCoordinateColumn(t)

\* C8: on a document that passes the validity pass and has a column with a
\* coordinate_variable record, _check_complete(level) raises
\* BADCtfMetadataIncomplete exactly when a field mandatory at that level is
\* missing, and returns otherwise.
C8_CompletenessRule ==
    CompleteCase =>
        IF MissingMandatory(t, call.level)
        THEN raised = "BADCtfMetadataIncomplete"
        ELSE raised = "none"

\* _check_complete has returned at level complete on a document whose
\* location is given to a column only
C8_Witness ==
    /\ CompleteCase
    /\ call.level = "complete"
    /\ ~HasGlobal(t, "location")
    /\ raised = "none"

(***************************************************************************)
(* SpecExport: the legacy export of documents with coordinate_variable     *)
(* records, dates and a long_name.                                         *)
(***************************************************************************)
ExportRecords ==
    { <<"coordinate_variable", <<"1">>, "G">>,
      <<"coordinate_variable", <<"1">>, "a">>,
      <<"coordinate_variable", <<"1">>, "b">>,
      <<"date_valid", <<"2013-12-01">>, "G">>,
      <<"last_revised_date", <<"2013-12-02T00:00:00">>, "G">>,
      <<"long_name", <<"T", "K">>, "a">> }

NextExport ==
    \/ \E name \in Names : AddVariable(name, <<>>)
    \/ \E rec \in ExportRecords : AddMetadata(rec[1], rec[2], rec[3])
    \/ NasaAmes
    \/ \E fmt \in {"csv", "na"} : Write(fmt)

SpecExport == Init /\ [][NextExport]_vars

\* the number of data columns that have a coordinate_variable record
CoordinateColumns(d) ==
    Cardinality({i \in 1..Len(d.colnames) :
                    HasOnColumn(d, "coordinate_variable", d.colnames[i])})

\* the last call was the legacy export, by _NASA_Ames or by write
ExportCall ==
    \/ call.op = "_NASA_Ames"
    \/ call.op = "write" /\ call.fmt = "na"

\* C7: the legacy export of a document whose number of columns with a
\* coordinate_variable record is 0 or at least 2 raises, returns no text and
\* leaves the target file as it was.
C7_ExportPrecondition ==
    (ExportCall /\ CoordinateColumns(t) # 1)
        => /\ raised # "none"
           /\ ret = "None"
           /\ file = call.file

(***************************************************************************)
(* SpecHeader: the header of the legacy export of documents of up to two   *)
(* columns with long_name, scale_factor and coordinate_variable records.   *)
(***************************************************************************)
\* t = BADCtf() followed by add_metadata of the two dates the header asks for
InitHeader ==
    /\ t = add_record(add_record(NewInstance, "date_valid", <<"2013-12-01">>, "G"),
                      "last_revised_date", <<"2013-12-02T00:00:00">>, "G")
    /\ call = [op |-> "add_metadata", ref |-> "G"]
    /\ raised = "none"
    /\ ret = "None"
    /\ file = "absent"
    /\ section = 0
    /\ pc = "idle"
    /\ base = 3

HeaderRecords ==
    { <<"coordinate_variable", <<"1">>, "a">>,
      <<"coordinate_variable", <<"1">>, "b">>,
      <<"long_name", <<"A", "K">>, "a">>,
      <<"long_name", <<"B", "m">>, "b">>,
      <<"scale_factor", <<"2.0">>, "a">>,
      <<"scale_factor", <<"2.0">>, "b">> }

NextHeader ==
    \/ \E name \in Names : AddVariable(name, <<>>)
    \/ \E rec \in HeaderRecords : AddMetadata(rec[1], rec[2], rec[3])
    \/ NasaAmes

SpecHeader == InitHeader /\ [][NextHeader]_vars

\* the values of the first record of the label on the column
FirstOnColumn(d, label, name) ==
    LET sel == SelectSeq(d.varRecords, LAMBDA r : r[1] = label /\ r[2] = name)
    IN  sel[1][3]

\* the columns without a coordinate_variable record, in column order
NonCoordinate(d) ==
    SelectSeq(d.colnames, LAMBDA v : ~HasOnColumn(d, "coordinate_variable", v))

\* the last call was _NASA_Ames, it returned the text, and the document has
\* one column with a coordinate_variable record and no global record of that
\* label
HeaderWritten ==
    /\ call.op = "_NASA_Ames"
    /\ raised = "none"
    /\ CoordinateColumns(t) = 1
    /\ ~HasGlobal(t, "coordinate_variable")

\* C16: the scale factor line of the header has one entry for each column
\* without a coordinate_variable record, in column order: the value of the
\* scale_factor record of the column when it has one, "1.0" when it has none.
C16_ScaleFactors ==
    HeaderWritten =>
        /\ Len(ret.sf_line) = Len(NonCoordinate(t))
        /\ \A i \in 1..Len(NonCoordinate(t)) :
              ret.sf_line[i] =
                  IF HasOnColumn(t, "scale_factor", NonCoordinate(t)[i])
                  THEN FirstOnColumn(t, "scale_factor", NonCoordinate(t)[i])[1]
                  ELSE "1.0"

\* every column has one long_name record and no other record is a long_name
OneLongNameEach(d) ==
    /\ ~HasGlobal(d, "long_name")
    /\ \A i \in 1..Len(d.varRecords) :
          d.varRecords[i][1] = "long_name"
              => \E k \in 1..Len(d.colnames) : d.colnames[k] = d.varRecords[i][2]
    /\ \A k \in 1..Len(d.colnames) :
          Cardinality({i \in 1..Len(d.varRecords) :
                          /\ d.varRecords[i][1] = "long_name"
                          /\ d.varRecords[i][2] = d.colnames[k]}) = 1

\* C17: for a document with one coordinate column, each column with its
\* long_name record, the variable count of the header is the number of
\* columns without a coordinate_variable record, the header lists that many
\* long names, one for each of these columns, and the long name of the
\* coordinate column is not among them.
C17_HeaderConsistency ==
    (HeaderWritten /\ OneLongNameEach(t)) =>
        /\ ret.nvar = Len(NonCoordinate(t))
        /\ Len(ret.long_names) = ret.nvar
        /\ \A i \in 1..Len(NonCoordinate(t)) :
              FirstOnColumn(t, "long_name", NonCoordinate(t)[i])
                  \in Range(ret.long_names)
        /\ ret.coord \notin Range(ret.long_names)

(***************************************************************************)
(* SpecParse: BADCtf('r', filename), one row of the reader at a time.      *)
(***************************************************************************)
Cells == {"", "x", "G", "Data", "End Data"}
Rows == SeqsUpTo(Cells, MaxCells)

\* BADCtf('r', filename) up to the first row: empty stores, section = 1
InitRead ==
    /\ t = EmptyInstance
    /\ call = [op |-> "_parse"]
    /\ raised = "none"
    /\ ret = "None"
    /\ file = "absent"
    /\ section = 1
    /\ pc = "parsing"
    /\ base = 0

\* the reader yields row: one pass of the loop of _parse
ParseRow(row) ==
    LET r == parse_row(t, section, row) IN
    /\ pc = "parsing"
    /\ Len(r.t.globalRecords) + Len(r.t.varRecords) <= MaxParseRecords
    /\ DataLen(r.t) <= MaxParseRows
    /\ t' = r.t
    /\ section' = r.section
    /\ raised' = r.raised
    /\ pc' = IF r.raised # "none" THEN "failed"
             ELSE IF r.returns THEN "parsed" ELSE "parsing"
    /\ call' = [op |-> "row", row |-> row, section |-> section, nvar |-> nvar(t),
                len |-> DataLen(t)]
    /\ UNCHANGED <<ret, file, base>>

\* the reader has no more rows: the loop ends and _parse returns
ParseEOF ==
    /\ pc = "parsing"
    /\ pc' = "parsed"
    /\ call' = [op |-> "eof", section |-> section]
    /\ UNCHANGED <<t, section, raised, ret, file, base>>

\* _parse has returned: __init__ goes on with self._check_valid()
ReadCheckValid ==
    /\ pc = "parsed"
    /\ \E e \in _check_valid(t) :
          /\ raised' = e
          /\ pc' = IF e = "none" THEN "done" ELSE "failed"
    /\ call' = [op |-> "_check_valid"]
    /\ UNCHANGED <<t, section, ret, file, base>>

NextParse ==
    \/ \E row \in Rows : ParseRow(row)
    \/ ParseEOF
    \/ ReadCheckValid

SpecParse == InitRead /\ [][NextParse]_vars

\* the last step was a pass of the loop over a row of section sec
RowIn(sec) == call.op = "row" /\ call.section = sec

\* a row without cells, or with empty cells only
Blank(row) == \A i \in 1..Len(row) : row[i] = ""

\* C9: in the metadata section and in the data section a blank row raises
\* nothing, leaves the section and the data store as they were, and the parse
\* goes on.
C9_BlankRowIgnored ==
    ((RowIn(1) \/ RowIn(3)) /\ Blank(call.row))
        => /\ raised = "none"
           /\ pc = "parsing"
           /\ section = call.section
           /\ nvar(t) = call.nvar
           /\ DataLen(t) = call.len

\* the cells of the last row that are left once the blank ones are removed
LastRowCells == StripBlankCells(call.row).row

\* the last step was a pass over a data row: not blank, not the end data row
DataRowCase ==
    /\ RowIn(3)
    /\ ~Blank(call.row)
    /\ ~(Len(LastRowCells) = 1 /\ Lower(LastRowCells[1]) = "end data")

\* C10: a data row whose cell count differs from the number of variables makes
\* the parse fail, and one whose cell count equals it (one cell for one
\* variable included) appends its cells to the variables; none is dropped.
C10_DataRowShape ==
    DataRowCase =>
        IF Len(LastRowCells) # call.nvar
        THEN pc = "failed" /\ raised # "none"
        ELSE /\ raised = "none"
             /\ DataLen(t) = call.len + 1
             /\ \A i \in 1..nvar(t) : t.variables[i][DataLen(t)] = LastRowCells[i]

\* row, once its blank cells are removed, is the one cell word (lower case)
IsMarker(row, word) ==
    LET s == StripBlankCells(row) IN
    /\ s.raised = "none"
    /\ Len(s.row) = 1
    /\ Lower(s.row[1]) = word

\* one step of the parser, from the unprimed to the primed state
ParserStep ==
    /\ section' >= section
    /\ section' <= section + 1
    /\ (section = 1 /\ section' = 2)
           => (call'.op = "row" /\ IsMarker(call'.row, "data") /\ t' = t)
    /\ (section = 2 /\ call'.op = "row" /\ raised' = "none")
           => (section' = 3 /\ t'.colnames = StripBlankCells(call'.row).row)
    /\ (section = 2 /\ section' = 3) => call'.op = "row"
    /\ (call'.op = "row" /\ pc' = "parsed")
           => (section = 3 /\ IsMarker(call'.row, "end data") /\ t' = t)
    /\ pc # "parsing" => (t' = t /\ section' = section)

C12_MissingMarkerFails ==
    (call.op = "eof" /\ call.section \in {1, 2, 3})
        => (pc = "failed" /\ raised = "BADCtfParseError")

(***************************************************************************)
(* SpecCheck: the checking functions called on tuples of strings.          *)
(***************************************************************************)
CheckStrings == {"1", "1.5", "x"}

InitCheck ==
    /\ t = EmptyInstance
    /\ call = [op |-> "none"]
    /\ raised = "none"
    /\ ret = "None"
    /\ file = "absent"
    /\ section = 0
    /\ pc = "idle"
    /\ base = 0

Checked(name, values, e) ==
    /\ call' = [op |-> name, values |-> values]
    /\ raised' = e
    /\ UNCHANGED <<t, ret, file, section, pc, base>>

CallCheckLocation(values) == Checked("checkLocation", values, checkLocation(values))

CallCheckInt(values) == Checked("checkInt", values, checkInt(values))

CallCheckFloat(values) == Checked("checkFloat", values, checkFloat(values))

NextCheck ==
    \/ \E values \in SeqsUpTo(CheckStrings, MaxTuple) : CallCheckLocation(values)
    \/ \E values \in SeqsUpTo(CheckStrings, MaxTuple) : CallCheckInt(values)
    \/ \E values \in SeqsUpTo(CheckStrings, MaxTuple) : CallCheckFloat(values)

SpecCheck == InitCheck /\ [][NextCheck]_vars

\* C6: checkLocation raises on every tuple whose length is not 1, 2 or 4,
\* returns on every tuple of one string, and returns on every tuple of two or
\* four values each of which checkFloat accepts on its own.
C6_LocationCardinality ==
    call.op = "checkLocation" =>
        /\ Len(call.values) \notin {1, 2, 4} => raised # "none"
        /\ Len(call.values) = 1 => raised = "none"
        /\ ( /\ Len(call.values) \in {2, 4}
             /\ \A i \in 1..Len(call.values) : checkFloat(<<call.values[i]>>) = "none" )
           => raised = "none"

\* checkLocation has refused a tuple of three values that checkFloat accepts
C6_Witness ==
    /\ call.op = "checkLocation"
    /\ Len(call.values) = 3
    /\ checkFloat(call.values) = "none"
    /\ raised = "ValueError"

\* every value of the tuple is a string float() converts
AllFloats(values) == \A i \in 1..Len(values) : values[i] \in FloatStrings

\* every value of the tuple is a string int() converts, to its float() value
AllInts(values) ==
    \A i \in 1..Len(values) :
        /\ values[i] \in IntStrings
        /\ values[i] \in FloatStrings
        /\ 10 * IntOf(values[i]) = FloatTenths(values[i])

\* C15: checkFloat returns on a tuple of strings exactly when float() converts
\* every value ("1.5" included), and checkInt returns exactly when int()
\* converts every value to a number equal to its float() value; each raises
\* on every other tuple.
C15_NumericChecks ==
    /\ call.op = "checkFloat" => (raised = "none" <=> AllFloats(call.values))
    /\ call.op = "checkInt" => (raised = "none" <=> AllInts(call.values))

====
